---- MODULE Spec2Model ----
(***************************************************************************)
(* Model of the span monitor of src/span_monitor.go: a tree of monitors    *)
(* in which every SpanMonitor owns a field map, a buffer of sub-events, a  *)
(* suppressed flag and a sync.RWMutex, and forwards its field map to its   *)
(* parent's Record when it is finished.                                    *)
(*                                                                         *)
(* Every method is cut at its lock operations, so that the interleavings   *)
(* of goroutines calling into the same monitor are those of the code.      *)
(* Go maps and slices are modelled by value: the only aliases the code     *)
(* creates (the map handed to parent.Record, the slice stored under the    *)
(* sub-events key) are read but never written through by a SpanMonitor.    *)
(***************************************************************************)
EXTENDS Integers, Sequences, FiniteSets, TLC

(* ---- bounds of the model ---- *)
NThreads == 2        \* goroutines calling into the monitors
MaxCalls == 3        \* method calls the callers make in one behaviour
MaxChain == 102      \* longest parent chain explored by Root()

(* ---- constants of the program ---- *)
maxDepth == 100
FieldEventSubevents == "subevents"

Threads == 1..NThreads
NoThread == 0
Nil == -1            \* the nil Monitor

(* ---- values: map[string]interface{} ---- *)
\* an interface{} value is a string or a []map[string]interface{}
Str(s) == [s |-> s]
List(l) == [l |-> l]
EmptyMap == [k \in {} |-> Str("")]

\* for k, v := range over { base[k] = v }
Merge(base, over) ==
  [k \in DOMAIN base \cup DOMAIN over |->
      IF k \in DOMAIN over THEN over[k] ELSE base[k]]

\* sm.fields[key] = value
Put(map, key, value) ==
  [k \in DOMAIN map \cup {key} |-> IF k = key THEN value ELSE map[k]]

(* ---- inputs of the callers ---- *)
\* keys shared between two updates (op), between the fields and an event (step)
\* and between the fields and the sub-events key (subevents)
UpdateInputs ==
  { [op |-> Str("fetch")],
    [op |-> Str("store"), step |-> Str("none"), subevents |-> Str("u")] }
EventInputs ==
  { [step |-> Str("start")],
    [step |-> Str("end")] }
\* callers that set one field set on each monitor, and record one event on
\* the monitors other than monitor 1
FlowInputs(m) ==
  IF m = 1 THEN { [op |-> Str("fetch")] }
  ELSE { [op |-> Str("store"), step |-> Str("none"), subevents |-> Str("u")] }
FlowEvents(m) ==
  IF m = 1 THEN EventInputs ELSE { [step |-> Str("start")] }

VARIABLES
  kind,            \* dynamic type of each monitor: "root", "span", "other"
  parent,          \* SpanMonitor.parent
  SubeventsField,  \* SpanMonitor.SubeventsField
  span,            \* SpanMonitor.span # nil
  fields,          \* SpanMonitor.fields
  subevents,       \* SpanMonitor.subevents
  suppressed,      \* SpanMonitor.suppressed
  mu,              \* SpanMonitor.mu: [w: writer or NoThread, r: set of readers]
  stack,           \* call stack of each goroutine, innermost frame last
  spanFinished,    \* number of span.FinishWithOptions calls, per monitor
  calls,           \* the calls each span monitor made on its parent, in order
  received,        \* the Record calls each non-span monitor received, in order
  updates,         \* history: the arguments of the UpdateFields applied, in order
  finishes,        \* history: what each Finish found once it held the lock
  issued,          \* history: the Record calls on each monitor, in order of call
  overlap,         \* history: two Record calls on the monitor ran at the same time
  ncalls,          \* number of calls made by the callers so far
  budget,          \* number of calls the callers make at most
  rootCall         \* the Root() call: its locals, its result, and as history
                   \* the monitors its variable monitor went through

vars == <<kind, parent, SubeventsField, span, fields, subevents, suppressed, mu,
          stack, spanFinished, calls, received, updates, finishes, issued,
          overlap, ncalls, budget, rootCall>>

config == <<kind, parent, SubeventsField, span, budget>>
history == <<updates, finishes, issued, overlap>>

Monitors == DOMAIN kind
Spans == {m \in Monitors : kind[m] = "span"}

(* ---- sync.RWMutex ---- *)
Unlocked == [w |-> NoThread, r |-> {}]
\* variant: Lock() waits for a writer and not for the readers
CanLockAmongReaders(m) == mu[m].w = NoThread
CanLock(m) == mu[m].w = NoThread /\ mu[m].r = {}
CanRLock(m) == mu[m].w = NoThread

(* ---- call stacks ---- *)
Idle(t) == stack[t] = <<>>
\* a new call runs on the first goroutine that is not inside a call
Free(t) == Idle(t) /\ \A u \in Threads : u < t => ~Idle(u)
\* some goroutine is inside a Record call on monitor m
Recording(m) ==
  \E t \in Threads : \E i \in 1..Len(stack[t]) :
     stack[t][i].op = "Record" /\ stack[t][i].self = m
Top(t) == stack[t][Len(stack[t])]
At(t, label) == ~Idle(t) /\ Top(t).pc = label
\* snap and seen are history: the fields of a Record's monitor and the
\* suppressed flag of a Finish's monitor as the call began
Frame(op, label, m, a) ==
  [op |-> op, pc |-> label, self |-> m, arg |-> a,
   merged |-> EmptyMap, snap |-> EmptyMap, seen |-> FALSE]
\* history: a Record call on monitor m with event E, made by monitor from
\* (Nil for a caller outside the tree)
Issue(m, E, from) == [event |-> E, snap |-> fields[m], from |-> from]
Goto(t, label) == [stack EXCEPT ![t][Len(stack[t])].pc = label]
Return(t) == [stack EXCEPT ![t] = SubSeq(@, 1, Len(@) - 1)]

(* ---- NewSpanMonitorFromParent ---- *)
\* root 0, span 1 under the root with an opentracing span, span 2 under span 1
TreeKind == [m \in 0..2 |-> IF m = 0 THEN "root" ELSE "span"]
TreeParent == [m \in 0..2 |-> m - 1]

NewState ==
  /\ fields = [m \in Spans |-> EmptyMap]
  /\ subevents = [m \in Spans |-> <<>>]
  /\ suppressed = [m \in Spans |-> FALSE]
  /\ mu = [m \in Spans |-> Unlocked]
  /\ stack = [t \in Threads |-> <<>>]
  /\ spanFinished = [m \in Spans |-> 0]
  /\ calls = [m \in Spans |-> <<>>]
  /\ received = [m \in Monitors \ Spans |-> <<>>]
  /\ updates = [m \in Spans |-> <<>>]
  /\ finishes = [m \in Spans |-> <<>>]
  /\ issued = [m \in Spans |-> <<>>]
  /\ overlap = [m \in Spans |-> FALSE]
  /\ ncalls = 0
  /\ rootCall = [pc |-> "none", from |-> Nil, monitor |-> Nil, depth |-> 0,
                 result |-> Nil, walk |-> <<>>]

Init ==
  /\ kind = TreeKind
  /\ parent = TreeParent
  /\ SubeventsField = [m \in Spans |-> FieldEventSubevents]
  /\ span = [m \in Spans |-> m = 1]
  /\ budget = MaxCalls
  /\ NewState

\* the same tree, its callers making one call more
InitFlow ==
  /\ kind = TreeKind
  /\ parent = TreeParent
  /\ SubeventsField = [m \in Spans |-> FieldEventSubevents]
  /\ span = [m \in Spans |-> m = 1]
  /\ budget = MaxCalls + 1
  /\ NewState

\* the same tree, the exported SubeventsField of each span monitor set to ""
InitUnset ==
  /\ kind = TreeKind
  /\ parent = TreeParent
  /\ SubeventsField = [m \in Spans |-> ""]
  /\ span = [m \in Spans |-> m = 1]
  /\ budget = MaxCalls
  /\ NewState

\* root 0, span 1 under the root, spans 2 and 3 both under span 1
SiblingKind == [m \in 0..3 |-> IF m = 0 THEN "root" ELSE "span"]
SiblingParent == [m \in 0..3 |-> IF m <= 1 THEN m - 1 ELSE 1]

InitSiblings ==
  /\ kind = SiblingKind
  /\ parent = SiblingParent
  /\ SubeventsField = [m \in Spans |-> FieldEventSubevents]
  /\ span = [m \in Spans |-> m = 1]
  /\ budget = MaxCalls
  /\ NewState

\* the same tree after UpdateFields({op: fetch}) on span 2 and
\* UpdateFields({op: store}) on span 3 have returned
SiblingFields ==
  [m \in 1..3 |-> IF m = 2 THEN [op |-> Str("fetch")]
                  ELSE IF m = 3 THEN [op |-> Str("store")]
                  ELSE EmptyMap]

InitConcurrent ==
  /\ kind = SiblingKind
  /\ parent = SiblingParent
  /\ SubeventsField = [m \in Spans |-> FieldEventSubevents]
  /\ span = [m \in Spans |-> m = 1]
  /\ budget = MaxCalls
  /\ fields = SiblingFields
  /\ updates = [m \in Spans |-> IF m = 1 THEN <<>> ELSE <<SiblingFields[m]>>]
  /\ subevents = [m \in Spans |-> <<>>]
  /\ suppressed = [m \in Spans |-> FALSE]
  /\ mu = [m \in Spans |-> Unlocked]
  /\ stack = [t \in Threads |-> <<>>]
  /\ spanFinished = [m \in Spans |-> 0]
  /\ calls = [m \in Spans |-> <<>>]
  /\ received = [m \in Monitors \ Spans |-> <<>>]
  /\ finishes = [m \in Spans |-> <<>>]
  /\ issued = [m \in Spans |-> <<>>]
  /\ overlap = [m \in Spans |-> FALSE]
  /\ ncalls = 0
  /\ rootCall = [pc |-> "none", from |-> Nil, monitor |-> Nil, depth |-> 0,
                 result |-> Nil, walk |-> <<>>]

\* parent references that close on themselves: span 1 its own parent, with or
\* without a span 2 under it, or spans 1 and 2 each the parent of the other
\* (the parent field is set by a SpanMonitorOption after line 54)
LoopParent(n, end) ==
  [m \in 0..n |-> IF m # 1 THEN m - 1
                  ELSE IF end = "self" THEN 1 ELSE n]

InitLoop ==
  /\ \E n \in 1..2, end \in {"self", "cycle"} :
        /\ kind = [m \in 0..n |-> IF m = 0 THEN "root" ELSE "span"]
        /\ parent = LoopParent(n, end)
  /\ SubeventsField = [m \in Spans |-> FieldEventSubevents]
  /\ span = [m \in Spans |-> FALSE]
  /\ budget = MaxCalls
  /\ NewState

(* ---- UpdateFields ---- *)
\* lines 103-104: the call begins when it is granted the lock
CallUpdateFields(t, m, F) ==
  /\ Free(t) /\ ncalls < budget
  /\ CanLock(m)
  /\ mu' = [mu EXCEPT ![m].w = t]
  /\ stack' = [stack EXCEPT ![t] = <<Frame("UpdateFields", "uf_body", m, F)>>]
  /\ ncalls' = ncalls + 1
  /\ UNCHANGED <<config, fields, subevents, suppressed, spanFinished,
                 calls, received, history, rootCall>>

\* variant: a key that is already set keeps its value
UpdatedFieldsFirstWins(m, F) == Merge(F, fields[m])

\* lines 108-110: for k, v := range fields { sm.fields[k] = v }
UpdatedFields(m, F) == Merge(fields[m], F)

\* lines 105-110 and the deferred unlock
UpdateFieldsBody(t) ==
  /\ At(t, "uf_body")
  /\ LET m == Top(t).self IN
       /\ fields' = [fields EXCEPT ![m] = UpdatedFields(m, Top(t).arg)]
       /\ updates' = [updates EXCEPT ![m] = Append(@, Top(t).arg)]
       /\ mu' = [mu EXCEPT ![m].w = NoThread]
  /\ stack' = Return(t)
  /\ UNCHANGED <<config, subevents, suppressed, spanFinished,
                 calls, received, finishes, issued, overlap, ncalls, rootCall>>

(* ---- Suppress ---- *)
CallSuppress(t, m) ==
  /\ Free(t) /\ ncalls < budget
  /\ CanLock(m)
  /\ mu' = [mu EXCEPT ![m].w = t]
  /\ stack' = [stack EXCEPT ![t] = <<Frame("Suppress", "su_body", m, EmptyMap)>>]
  /\ ncalls' = ncalls + 1
  /\ UNCHANGED <<config, fields, subevents, suppressed, spanFinished,
                 calls, received, history, rootCall>>

\* variant: the parent is suppressed with the monitor
SuppressBodyCascading(t) ==
  /\ At(t, "su_body")
  /\ suppressed' = [o \in Spans |->
                      suppressed[o] \/ o = Top(t).self \/ o = parent[Top(t).self]]
  /\ mu' = [mu EXCEPT ![Top(t).self].w = NoThread]
  /\ stack' = Return(t)
  /\ UNCHANGED <<config, fields, subevents, spanFinished,
                 calls, received, history, ncalls, rootCall>>

\* line 117 and the deferred unlock
SuppressBody(t) ==
  /\ At(t, "su_body")
  /\ suppressed' = [suppressed EXCEPT ![Top(t).self] = TRUE]
  /\ mu' = [mu EXCEPT ![Top(t).self].w = NoThread]
  /\ stack' = Return(t)
  /\ UNCHANGED <<config, fields, subevents, spanFinished,
                 calls, received, history, ncalls, rootCall>>

(* ---- Record ---- *)
\* lines 122-128: sm.fields is read without the lock; the constructor made the
\* map and nothing resets it, so lines 123-125 are skipped and the call goes on
\* when it is granted the read lock
CallRecord(t, m, E) ==
  /\ Free(t) /\ ncalls < budget
  /\ CanRLock(m)
  /\ mu' = [mu EXCEPT ![m].r = @ \cup {t}]
  /\ stack' = [stack EXCEPT ![t] =
                 <<[Frame("Record", "rec_copy", m, E) EXCEPT !.snap = fields[m]]>>]
  /\ issued' = [issued EXCEPT ![m] = Append(@, Issue(m, E, Nil))]
  /\ overlap' = [overlap EXCEPT ![m] = @ \/ Recording(m)]
  /\ ncalls' = ncalls + 1
  /\ UNCHANGED <<config, fields, subevents, suppressed, spanFinished,
                 calls, received, updates, finishes, rootCall>>

\* variant: the fields are laid over the event
RecordMergedFieldsWin(m, E) == Merge(Merge(EmptyMap, E), fields[m])

\* lines 127-135: copy the fields into a new map, lay the event over the copy
RecordMerged(m, E) == Merge(Merge(EmptyMap, fields[m]), E)

\* variant: the read lock is kept, and still held at line 136
RUnlockSkipped(t, m) == mu

\* line 132: sm.mu.RUnlock()
RUnlocked(t, m) == [mu EXCEPT ![m].r = @ \ {t}]

\* lines 129-135, the read lock released at line 132
RecordCopy(t) ==
  /\ At(t, "rec_copy")
  /\ mu' = RUnlocked(t, Top(t).self)
  /\ stack' = [stack EXCEPT ![t][Len(stack[t])] =
                 [@ EXCEPT !.pc = "rec_lock",
                           !.merged = RecordMerged(Top(t).self, Top(t).arg)]]
  /\ UNCHANGED <<config, fields, subevents, suppressed, spanFinished,
                 calls, received, history, ncalls, rootCall>>

\* line 136
RecordLock(t) ==
  /\ At(t, "rec_lock") /\ CanLock(Top(t).self)
  /\ mu' = [mu EXCEPT ![Top(t).self].w = t]
  /\ stack' = Goto(t, "rec_append")
  /\ UNCHANGED <<config, fields, subevents, suppressed, spanFinished,
                 calls, received, history, ncalls, rootCall>>

\* variant: a suppressed monitor buffers nothing
RecordAppendedUnlessSuppressed(m, merged) ==
  IF suppressed[m] THEN subevents[m] ELSE Append(subevents[m], merged)

\* variant: the buffer is made anew from the entry
RecordAppendedAlone(m, merged) == <<merged>>

\* variant: the new entry goes to the front of the buffer
RecordPrepended(m, merged) == <<merged>> \o subevents[m]

\* line 137: sm.subevents = append(sm.subevents, merged)
RecordAppended(m, merged) == Append(subevents[m], merged)

\* variant: the entry is also handed to the parent at once, the TODO of line 142
RecordAppendFlushing(t) ==
  /\ At(t, "rec_append")
  /\ subevents' = [subevents EXCEPT ![Top(t).self] =
                     RecordAppended(Top(t).self, Top(t).merged)]
  /\ calls' = [calls EXCEPT ![Top(t).self] =
                 Append(@, [op |-> "Record", payload |-> Top(t).merged])]
  /\ mu' = [mu EXCEPT ![Top(t).self].w = NoThread]
  /\ stack' = Return(t)
  /\ UNCHANGED <<config, fields, suppressed, spanFinished,
                 received, history, ncalls, rootCall>>

\* lines 137-143: append, then return whether suppressed or not
RecordAppend(t) ==
  /\ At(t, "rec_append")
  /\ subevents' = [subevents EXCEPT ![Top(t).self] =
                     RecordAppended(Top(t).self, Top(t).merged)]
  /\ mu' = [mu EXCEPT ![Top(t).self].w = NoThread]
  /\ stack' = Return(t)
  /\ UNCHANGED <<config, fields, suppressed, spanFinished,
                 calls, received, history, ncalls, rootCall>>

(* ---- Finish ---- *)
\* lines 146-147: the call begins when it is granted the lock
CallFinish(t, m) ==
  /\ Free(t) /\ ncalls < budget
  /\ CanLock(m)
  /\ mu' = [mu EXCEPT ![m].w = t]
  /\ stack' = [stack EXCEPT ![t] =
                 <<[Frame("Finish", "fin_check", m, EmptyMap)
                      EXCEPT !.seen = suppressed[m]]>>]
  /\ ncalls' = ncalls + 1
  /\ UNCHANGED <<config, fields, subevents, suppressed, spanFinished,
                 calls, received, history, rootCall>>

\* variant: a buffer of one entry is left out
FinishFieldsOverOne(m) ==
  IF Len(subevents[m]) > 1
    THEN Put(fields[m], SubeventsField[m], List(subevents[m]))
    ELSE fields[m]

\* variant: the key is set whatever the buffer holds
FinishFieldsAlways(m) == Put(fields[m], SubeventsField[m], List(subevents[m]))

\* lines 157-159: the buffer goes under the sub-events key when it is not empty
FinishFields(m) ==
  IF Len(subevents[m]) > 0
    THEN Put(fields[m], SubeventsField[m], List(subevents[m]))
    ELSE fields[m]

\* variant: the opentracing span is left open
FinishSpanNever(m) == spanFinished[m]

\* lines 151-156: the opentracing span, when there is one, is finished
FinishSpan(m) == IF span[m] THEN spanFinished[m] + 1 ELSE spanFinished[m]

\* variant: the flag is not looked at
FinishNeverReturnsEarly(m) == FALSE

\* variant: the test is the wrong way round
FinishReturnsEarlyUnsuppressed(m) == ~suppressed[m]

\* line 148
FinishReturnsEarly(m) == suppressed[m]

\* lines 148-159
FinishCheck(t) ==
  /\ At(t, "fin_check")
  /\ LET m == Top(t).self IN
       /\ finishes' = [finishes EXCEPT ![m] =
                          Append(@, [sup |-> suppressed[m], before |-> fields[m],
                                     buffer |-> subevents[m]])]
       /\ IF FinishReturnsEarly(m)
            THEN /\ mu' = [mu EXCEPT ![m].w = NoThread]
                 /\ stack' = Return(t)
                 /\ UNCHANGED <<fields, spanFinished>>
            ELSE /\ spanFinished' = [spanFinished EXCEPT ![m] = FinishSpan(m)]
                 /\ fields' = [fields EXCEPT ![m] = FinishFields(m)]
                 /\ stack' = Goto(t, "fin_call")
                 /\ UNCHANGED mu
  /\ UNCHANGED <<config, subevents, suppressed, calls, received, updates,
                 issued, overlap, ncalls, rootCall>>

\* variant: the sub-events key is left out of what is forwarded
ParentCallFlat(m) ==
  [op |-> "Record",
   payload |-> [k \in DOMAIN fields[m] \ {SubeventsField[m]} |-> fields[m][k]]]

\* line 160: what the monitor asks of its parent
ParentCall(m) == [op |-> "Record", payload |-> fields[m]]

\* line 160: sm.parent.Record(sm.fields), the monitor's own lock still held; a
\* span monitor parent runs lines 122-128 of its Record before anything else
FinishCall(t) ==
  /\ At(t, "fin_call")
  /\ LET m == Top(t).self
         p == parent[m]
     IN /\ p # Nil
        /\ calls' = [calls EXCEPT ![m] = Append(@, ParentCall(m))]
        /\ IF kind[p] = "span"
             THEN /\ CanRLock(p)
                  /\ mu' = [mu EXCEPT ![p].r = @ \cup {t}]
                  /\ stack' = [stack EXCEPT ![t] =
                                 Append(Goto(t, "fin_unlock")[t],
                                        [Frame("Record", "rec_copy", p,
                                               ParentCall(m).payload)
                                           EXCEPT !.snap = fields[p]])]
                  /\ issued' = [issued EXCEPT ![p] =
                                  Append(@, Issue(p, ParentCall(m).payload, m))]
                  /\ overlap' = [overlap EXCEPT ![p] = @ \/ Recording(p)]
                  /\ UNCHANGED received
             ELSE /\ received' = [received EXCEPT ![p] =
                                    Append(@, [from |-> m,
                                               payload |-> ParentCall(m).payload])]
                  /\ stack' = Goto(t, "fin_unlock")
                  /\ UNCHANGED <<mu, issued, overlap>>
  /\ UNCHANGED <<config, fields, subevents, suppressed, spanFinished,
                 updates, finishes, ncalls, rootCall>>

\* the deferred sm.mu.Unlock()
FinishUnlock(t) ==
  /\ At(t, "fin_unlock")
  /\ mu' = [mu EXCEPT ![Top(t).self].w = NoThread]
  /\ stack' = Return(t)
  /\ UNCHANGED <<config, fields, subevents, suppressed, spanFinished,
                 calls, received, history, ncalls, rootCall>>

(* ---- Root ---- *)
\* a parent chain: spans n, n-1, ..., 1, each the parent of the one before, and
\* at its end whatever span 1 was constructed from
ChainEnds == {"root", "other", "nilroot", "nilspan", "nil", "self", "cycle"}

ChainKind(n, end) ==
  [m \in 0..n |-> IF m > 0 THEN "span"
                  ELSE IF end \in {"other", "nilroot", "nilspan"} THEN end
                  ELSE "root"]

ChainParent(n, end) ==
  [m \in 0..n |-> IF m # 1 THEN m - 1
                  ELSE CASE end = "nil" -> Nil
                         [] end = "self" -> 1
                         [] end = "cycle" -> n
                         [] OTHER -> 0]

InitRoot ==
  /\ \E n \in 1..MaxChain, end \in ChainEnds :
        /\ kind = ChainKind(n, end)
        /\ parent = ChainParent(n, end)
  /\ SubeventsField = [m \in Spans |-> FieldEventSubevents]
  /\ span = [m \in Spans |-> FALSE]
  /\ budget = 0
  /\ NewState

\* variant: the depth is counted and never tested
TooDeepNever(depth) == FALSE

\* variant: the loop stops one hop early
TooDeepAtBound(depth) == depth >= maxDepth

\* line 86
TooDeep(depth) == depth > maxDepth

\* lines 90 and 92: the type assertions; a typed nil pointer passes neither
IsRootMonitor(monitor) == kind[monitor] = "root"
IsSpanMonitor(monitor) == kind[monitor] = "span"

\* lines 81-83; the call is made on the span created last
CallRoot(m) ==
  /\ rootCall.pc = "none"
  /\ \A o \in Spans : o <= m
  /\ rootCall' = [pc |-> "loop", from |-> m, monitor |-> parent[m], depth |-> 0,
                  result |-> Nil, walk |-> <<parent[m]>>]
  /\ UNCHANGED <<config, fields, subevents, suppressed, mu, stack, spanFinished,
                 calls, received, history, ncalls>>

\* lines 84-98: one turn of the loop, or leaving it
RootLoop ==
  /\ rootCall.pc = "loop"
  /\ LET monitor == rootCall.monitor
         depth == rootCall.depth + 1
     IN IF monitor = Nil
          THEN rootCall' = [rootCall EXCEPT !.pc = "done", !.result = Nil]
        ELSE IF TooDeep(depth)
          THEN rootCall' = [rootCall EXCEPT !.pc = "done", !.result = Nil,
                                             !.depth = depth]
        ELSE IF IsRootMonitor(monitor)
          THEN rootCall' = [rootCall EXCEPT !.pc = "done", !.result = monitor,
                                             !.depth = depth]
        ELSE IF IsSpanMonitor(monitor)
          THEN rootCall' = [rootCall EXCEPT !.depth = depth,
                                             !.monitor = parent[monitor],
                                             !.walk = Append(@, parent[monitor])]
        ELSE rootCall' = [rootCall EXCEPT !.pc = "done", !.result = Nil,
                                           !.depth = depth]
  /\ UNCHANGED <<config, fields, subevents, suppressed, mu, stack, spanFinished,
                 calls, received, history, ncalls>>

NextRoot == (\E m \in Spans : CallRoot(m)) \/ RootLoop

SpecRoot == InitRoot /\ [][NextRoot]_vars

\* the goroutine that called Root() is scheduled as long as it can run
SpecRootLive == SpecRoot /\ WF_vars(RootLoop)

(* ---- Fields, Parent ---- *)
\* the span monitor created last, which has every other one above it
Last(m) == \A o \in Spans : o <= m

\* line 66: the call is made; the method takes no lock
CallFields(t, m) ==
  /\ Free(t) /\ ncalls < budget
  /\ stack' = [stack EXCEPT ![t] = <<Frame("Fields", "fd_read", m, EmptyMap)>>]
  /\ ncalls' = ncalls + 1
  /\ UNCHANGED <<config, fields, subevents, suppressed, mu, spanFinished,
                 calls, received, history, rootCall>>

\* line 67: return sm.fields
FieldsRead(t) ==
  /\ At(t, "fd_read")
  /\ stack' = Return(t)
  /\ UNCHANGED <<config, fields, subevents, suppressed, mu, spanFinished,
                 calls, received, history, ncalls, rootCall>>

\* line 71
CallParent(t, m) ==
  /\ Free(t) /\ ncalls < budget
  /\ stack' = [stack EXCEPT ![t] = <<Frame("Parent", "pa_read", m, EmptyMap)>>]
  /\ ncalls' = ncalls + 1
  /\ UNCHANGED <<config, fields, subevents, suppressed, mu, spanFinished,
                 calls, received, history, rootCall>>

\* line 72: return sm.parent
ParentRead(t) ==
  /\ At(t, "pa_read")
  /\ stack' = Return(t)
  /\ UNCHANGED <<config, fields, subevents, suppressed, mu, spanFinished,
                 calls, received, history, ncalls, rootCall>>

(* ---- Record, its first lines one at a time ---- *)
\* line 121: the call is made
InvokeRecord(t, m, E) ==
  /\ Free(t) /\ ncalls < budget
  /\ stack' = [stack EXCEPT ![t] = <<Frame("Record", "rec_nil", m, E)>>]
  /\ ncalls' = ncalls + 1
  /\ UNCHANGED <<config, fields, subevents, suppressed, mu, spanFinished,
                 calls, received, history, rootCall>>

\* line 122: sm.fields is read and found not nil, lines 123-125 are skipped
RecordNilCheck(t) ==
  /\ At(t, "rec_nil")
  /\ stack' = Goto(t, "rec_rlock")
  /\ UNCHANGED <<config, fields, subevents, suppressed, mu, spanFinished,
                 calls, received, history, ncalls, rootCall>>

\* lines 127-128
RecordRLock(t) ==
  /\ At(t, "rec_rlock") /\ CanRLock(Top(t).self)
  /\ LET m == Top(t).self IN
       /\ mu' = [mu EXCEPT ![m].r = @ \cup {t}]
       /\ stack' = [stack EXCEPT ![t][Len(stack[t])] =
                      [@ EXCEPT !.pc = "rec_copy", !.snap = fields[m]]]
       /\ issued' = [issued EXCEPT ![m] = Append(@, Issue(m, Top(t).arg, Nil))]
       /\ overlap' = [overlap EXCEPT ![m] =
                        @ \/ \E u \in Threads \ {t} : \E i \in 1..Len(stack[u]) :
                               stack[u][i].op = "Record" /\ stack[u][i].self = m]
  /\ UNCHANGED <<config, fields, subevents, suppressed, spanFinished,
                 calls, received, updates, finishes, ncalls, rootCall>>

\* the pcs at which the next step of a call reads the field set, the buffer or
\* the flag of its monitor: lines 67, 122, 129-131, 105, 139, 148-160
ReadSteps == {"fd_read", "rec_nil", "rec_copy", "uf_body", "rec_append",
              "fin_check", "fin_call"}
\* the pcs at which it writes one of them: lines 106-110, 117, 137, 158
WriteSteps == {"uf_body", "su_body", "rec_append", "fin_check"}

Next ==
  \E t \in Threads :
    \/ \E m \in Spans, F \in UpdateInputs : CallUpdateFields(t, m, F)
    \/ UpdateFieldsBody(t)
    \/ \E m \in Spans : CallSuppress(t, m)
    \/ SuppressBody(t)
    \/ \E m \in Spans, E \in EventInputs : CallRecord(t, m, E)
    \/ RecordCopy(t)
    \/ RecordLock(t)
    \/ RecordAppend(t)
    \/ \E m \in Spans : CallFinish(t, m)
    \/ FinishCheck(t)
    \/ FinishCall(t)
    \/ FinishUnlock(t)

Spec == Init /\ [][Next]_vars

SpecUnset == InitUnset /\ [][Next]_vars

\* callers that update, record and finish, and never suppress
NextFlow ==
  \E t \in Threads :
    \/ \E m \in Spans : \E F \in FlowInputs(m) : CallUpdateFields(t, m, F)
    \/ UpdateFieldsBody(t)
    \/ \E m \in Spans : \E E \in FlowEvents(m) : CallRecord(t, m, E)
    \/ RecordCopy(t)
    \/ RecordLock(t)
    \/ RecordAppend(t)
    \/ \E m \in Spans : CallFinish(t, m)
    \/ FinishCheck(t)
    \/ FinishCall(t)
    \/ FinishUnlock(t)

SpecFlow == InitFlow /\ [][NextFlow]_vars

\* callers of the shared parent 1, who update, record, suppress and finish, and
\* callers of its children 2 and 3, who finish them
NextSiblings ==
  \E t \in Threads :
    \/ CallUpdateFields(t, 1, [op |-> Str("fetch")])
    \/ UpdateFieldsBody(t)
    \/ CallSuppress(t, 1)
    \/ SuppressBody(t)
    \/ CallRecord(t, 1, [step |-> Str("start")])
    \/ RecordCopy(t)
    \/ RecordLock(t)
    \/ RecordAppend(t)
    \/ \E m \in Spans : CallFinish(t, m)
    \/ FinishCheck(t)
    \/ FinishCall(t)
    \/ FinishUnlock(t)

SpecSiblings == InitSiblings /\ [][NextSiblings]_vars

SpecLoop == InitLoop /\ [][Next]_vars

\* callers who record on the shared parent 1 and finish any monitor
NextConcurrent ==
  \E t \in Threads :
    \/ \E E \in EventInputs : CallRecord(t, 1, E)
    \/ RecordCopy(t)
    \/ RecordLock(t)
    \/ RecordAppend(t)
    \/ \E m \in Spans : CallFinish(t, m)
    \/ FinishCheck(t)
    \/ FinishCall(t)
    \/ FinishUnlock(t)

SpecConcurrent == InitConcurrent /\ [][NextConcurrent]_vars

\* every operation of a span monitor: the tree of Init, where any monitor is
\* finished and the other operations are called on the span created last, the
\* one that has a span monitor for its parent
NextOps ==
  \/ \E t \in Threads :
       \/ \E m \in Spans : \E F \in FlowInputs(m) : Last(m) /\ CallUpdateFields(t, m, F)
       \/ UpdateFieldsBody(t)
       \/ \E m \in Spans : Last(m) /\ CallSuppress(t, m)
       \/ SuppressBody(t)
       \/ \E m \in Spans : Last(m) /\ InvokeRecord(t, m, [step |-> Str("start")])
       \/ RecordNilCheck(t)
       \/ RecordRLock(t)
       \/ RecordCopy(t)
       \/ RecordLock(t)
       \/ RecordAppend(t)
       \/ \E m \in Spans : CallFinish(t, m)
       \/ FinishCheck(t)
       \/ FinishCall(t)
       \/ FinishUnlock(t)
       \/ \E m \in Spans : Last(m) /\ CallFields(t, m)
       \/ FieldsRead(t)
       \/ \E m \in Spans : Last(m) /\ CallParent(t, m)
       \/ ParentRead(t)
  \/ \E m \in Spans : CallRoot(m)
  \/ RootLoop

SpecOps == Init /\ [][NextOps]_vars

\* the steps goroutine t takes inside a call it has begun
ThreadStep(t) ==
  \/ UpdateFieldsBody(t)
  \/ SuppressBody(t)
  \/ RecordCopy(t)
  \/ RecordLock(t)
  \/ RecordAppend(t)
  \/ FinishCheck(t)
  \/ FinishCall(t)
  \/ FinishUnlock(t)

\* the Go scheduler runs every goroutine that can run, and a goroutine waiting
\* in Lock or RLock goes on once the lock stays free for it
SpecLive == SpecSiblings /\ \A t \in Threads : WF_vars(ThreadStep(t))
(***************************************************************************)
(* Properties                                                              *)
(***************************************************************************)
\* map G is map F0 with map F laid over it
Overrides(G, F0, F) ==
  /\ DOMAIN G = DOMAIN F0 \cup DOMAIN F
  /\ \A k \in DOMAIN F : G[k] = F[k]
  /\ \A k \in DOMAIN F0 \ DOMAIN F : G[k] = F0[k]

\* goroutine t takes the step
Steps(t) == stack'[t] # stack[t]
Quiet == \A t \in Threads : Idle(t)

\* the Finish calls on m that found it unsuppressed
Passes(m) == SelectSeq(finishes[m], LAMBDA f : ~f.sup)
\* no Finish has put a sub-events key into the fields of m
Unfolded(m) == \A i \in 1..Len(Passes(m)) : Passes(m)[i].buffer = <<>>

\* the updates that set key k, by their place in the history
Setters(m, k) == {i \in 1..Len(updates[m]) : k \in DOMAIN updates[m][i]}
LastSetter(m, k) == CHOOSE i \in Setters(m, k) : \A j \in Setters(m, k) : j <= i

C1_Step ==
  \A t \in Threads :
    At(t, "uf_body") /\ Steps(t) =>
      Overrides(fields'[Top(t).self], fields[Top(t).self], Top(t).arg)

C1_History ==
  \A m \in Spans :
    Unfolded(m) =>
      /\ DOMAIN fields[m] = UNION {DOMAIN updates[m][i] : i \in 1..Len(updates[m])}
      /\ \A k \in DOMAIN fields[m] : fields[m][k] = updates[m][LastSetter(m, k)][k]

\* C1: when UpdateFields(F) returns, Fields() is the former field set with F
\* laid over it: the keys of F carry F's values, the other keys keep theirs and
\* no key is added; hence the fields of a monitor are the union of the updates
\* made so far, the latest update winning on every key
C1_UpdateFieldsOverrides == [][C1_Step]_vars /\ []C1_History

\* two updates that share the key op were made one after the other on a monitor
C1_Witness ==
  \E m \in Spans :
    /\ Quiet
    /\ updates[m] = << [op |-> Str("store"), step |-> Str("none"),
                        subevents |-> Str("u")],
                       [op |-> Str("fetch")] >>
    /\ fields[m] = [op |-> Str("fetch"), step |-> Str("none"),
                    subevents |-> Str("u")]

C2_Append ==
  \A t \in Threads :
    At(t, "rec_append") /\ Steps(t) =>
      LET m == Top(t).self IN
        /\ Len(subevents'[m]) = Len(subevents[m]) + 1
        /\ Overrides(subevents'[m][Len(subevents'[m])], Top(t).snap, Top(t).arg)

C2_Frozen ==
  \A m \in Spans :
    /\ Len(subevents'[m]) >= Len(subevents[m])
    /\ \A i \in 1..Len(subevents[m]) : subevents'[m][i] = subevents[m][i]

\* C2: the entry a Record(E) call appends is the field set the monitor had
\* when the call began with E laid over it, and no later step of any
\* operation changes an entry that is in the buffer
C2_RecordSnapshot == [][C2_Append /\ C2_Frozen]_vars

\* an event with the key step was recorded over fields that had this key, and
\* the fields were updated afterwards
C2_Witness ==
  \E m \in Spans :
    /\ Quiet
    /\ subevents[m] = << [op |-> Str("store"), step |-> Str("start"),
                          subevents |-> Str("u")] >>
    /\ fields[m] = [op |-> Str("fetch"), step |-> Str("none"),
                    subevents |-> Str("u")]

C3_Grows ==
  \A m \in Spans :
    /\ Len(subevents'[m]) >= Len(subevents[m])
    /\ SubSeq(subevents'[m], 1, Len(subevents[m])) = subevents[m]

C3_AtEnd ==
  \A t \in Threads :
    At(t, "rec_append") /\ Steps(t) =>
      LET m == Top(t).self IN
        /\ Len(subevents'[m]) = Len(subevents[m]) + 1
        /\ \A k \in DOMAIN Top(t).arg :
              subevents'[m][Len(subevents'[m])][k] = Top(t).arg[k]

C3_InCallOrder ==
  \A m \in Spans :
    ~overlap[m] =>
      /\ Len(subevents[m]) <= Len(issued[m])
      /\ \A i \in 1..Len(subevents[m]) :
            \A k \in DOMAIN issued[m][i].event :
               subevents[m][i][k] = issued[m][i].event[k]

\* C3: the buffer only grows at its end: every step leaves the former buffer
\* as a prefix, a Record puts its entry last when it appends, and when the
\* Record calls on a monitor did not overlap the entries are in call order
C3_BufferAppendOnly == [][C3_Grows /\ C3_AtEnd]_vars /\ []C3_InCallOrder

\* two different events recorded one after the other, then a Finish that left
\* the buffer alone
C3_Witness ==
  \E m \in Spans :
    /\ Quiet /\ ~overlap[m]
    /\ Len(finishes[m]) = 1
    /\ subevents[m] = << [step |-> Str("start")], [step |-> Str("end")] >>

\* a Finish on m is past its check and about to call the parent
FinishCalling(m) ==
  \E t \in Threads : \E i \in 1..Len(stack[t]) :
     stack[t][i].op = "Finish" /\ stack[t][i].self = m /\ stack[t][i].pc = "fin_call"
\* a Finish on m has begun and not returned
Finishing(m) ==
  \E t \in Threads : \E i \in 1..Len(stack[t]) :
     stack[t][i].op = "Finish" /\ stack[t][i].self = m
Pending(m) == IF FinishCalling(m) THEN 1 ELSE 0
\* what the parent of m, not a span monitor, received from m
ReceivedFrom(m) == SelectSeq(received[parent[m]], LAMBDA e : e.from = m)
\* map pl is the fields f.before of a Finish with its buffer under the key
Forwards(pl, f, key) ==
  IF f.buffer = <<>> THEN pl = f.before
  ELSE Overrides(pl, f.before, [x \in {key} |-> List(f.buffer)])

\* C4: a Finish that finds the monitor unsuppressed with n >= 1 buffered
\* entries makes one Record call on the parent; its payload is the field set
\* the Finish found, with the sub-events key mapped to the whole buffer in
\* buffer order, and a parent that is not a span monitor receives just that
C4_FinishNestsBuffer ==
  \A m \in Spans :
    /\ Len(calls[m]) + Pending(m) = Len(Passes(m))
    /\ \A i \in 1..Len(calls[m]) :
         Len(Passes(m)[i].buffer) >= 1 =>
           /\ calls[m][i].op = "Record"
           /\ SubeventsField[m] \in DOMAIN calls[m][i].payload
           /\ calls[m][i].payload[SubeventsField[m]] = List(Passes(m)[i].buffer)
           /\ \A k \in DOMAIN Passes(m)[i].before \ {SubeventsField[m]} :
                 calls[m][i].payload[k] = Passes(m)[i].before[k]
           /\ DOMAIN calls[m][i].payload =
                 DOMAIN Passes(m)[i].before \cup {SubeventsField[m]}
    /\ kind[parent[m]] # "span" =>
         /\ Len(ReceivedFrom(m)) = Len(calls[m])
         /\ \A i \in 1..Len(calls[m]) :
               ReceivedFrom(m)[i].payload = calls[m][i].payload

\* UpdateFields({op:fetch}); Record({step:start}); Record({step:end}); Finish()
C4_Witness ==
  /\ Quiet
  /\ received[0] =
       << [from |-> 1,
           payload |-> [op |-> Str("fetch"),
                        subevents |-> List(<< [op |-> Str("fetch"),
                                               step |-> Str("start")],
                                              [op |-> Str("fetch"),
                                               step |-> Str("end")] >>)]] >>

C5_Payload ==
  \A m \in Spans :
    \A i \in 1..Len(calls[m]) :
      Passes(m)[i].buffer = <<>> =>
        /\ calls[m][i].op = "Record"
        /\ calls[m][i].payload = Passes(m)[i].before
        /\ kind[parent[m]] # "span" =>
             ReceivedFrom(m)[i].payload = Passes(m)[i].before

C5_FieldsKept ==
  \A t \in Threads :
    (~Idle(t) /\ Steps(t) /\ Top(t).op = "Finish"
       /\ subevents[Top(t).self] = <<>>)
      => fields'[Top(t).self] = fields[Top(t).self]

\* C5: a Finish that finds the monitor unsuppressed with an empty buffer
\* forwards exactly the field set it found, no sub-events key put in, and no
\* step of that Finish changes the monitor's fields
C5_FinishEmptyBuffer == []C5_Payload /\ [][C5_FieldsKept]_vars

\* UpdateFields({op:fetch}); Finish() on the span under the root
C5_Witness ==
  /\ Quiet
  /\ subevents[1] = <<>>
  /\ fields[1] = [op |-> Str("fetch")]
  /\ received[0] = << [from |-> 1, payload |-> [op |-> Str("fetch")]] >>

C6_NothingForwarded ==
  \A t \in Threads :
    (~Idle(t) /\ Steps(t) /\ Top(t).op = "Finish" /\ Top(t).seen)
      => /\ calls' = calls /\ received' = received
         /\ spanFinished' = spanFinished /\ issued' = issued
         /\ stack'[t] = <<>>

C6_BothOrNeither ==
  \A m \in Spans :
    /\ span[m] => spanFinished[m] = Len(calls[m]) + Pending(m)
    /\ ~span[m] => spanFinished[m] = 0
    /\ Len(calls[m]) + Pending(m) = Len(Passes(m))

\* C6: a Finish that begins on a suppressed monitor returns at once: no call
\* on the parent, no finalize of the trace span; and in every state the trace
\* span of a monitor was finalized once for each Finish that found the monitor
\* unsuppressed, which is also once for each call on the parent, made or due
C6_SuppressedFinish == [][C6_NothingForwarded]_vars /\ []C6_BothOrNeither

\* Record, Suppress, Finish on the span that has a trace span
C6_Witness ==
  \E m \in Spans :
    /\ Quiet /\ span[m] /\ suppressed[m]
    /\ Len(finishes[m]) = 1 /\ finishes[m][1].sup
    /\ Len(finishes[m][1].buffer) = 1
    /\ calls[m] = <<>> /\ spanFinished[m] = 0
    /\ \A r \in Monitors \ Spans : received[r] = <<>>

C7_Count ==
  \A m \in Spans :
    /\ \A i \in 1..Len(calls[m]) : calls[m][i].op = "Record"
    /\ Len(calls[m]) + Pending(m) = Len(Passes(m))
    /\ finishes[m] = <<>> => calls[m] = <<>>
    /\ (Len(finishes[m]) = 1 /\ ~finishes[m][1].sup /\ ~Finishing(m))
         => Len(calls[m]) = 1

C7_AtFinish ==
  \A m \in Spans :
    calls'[m] # calls[m] =>
      /\ Len(calls'[m]) = Len(calls[m]) + 1
      /\ \E t \in Threads : At(t, "fin_call") /\ Top(t).self = m /\ Steps(t)

\* C7: a span monitor calls nothing but Record on its parent, only in a step
\* of its own Finish, and once for each Finish that found it unsuppressed:
\* never before it is finished, exactly once when it is finished once
C7_ExactlyOnce == []C7_Count /\ [][C7_AtFinish]_vars

\* a monitor recorded an event and was finished once, unsuppressed
C7_Witness ==
  \E m \in Spans :
    /\ Quiet
    /\ Len(subevents[m]) = 1
    /\ Len(finishes[m]) = 1 /\ ~finishes[m][1].sup
    /\ Len(calls[m]) = 1

\* C8: Root() follows the parents from the monitor's own parent through span
\* monitors; it returns the first RootMonitor met when that is one of the
\* first maxDepth ancestors, and nil when the chain reaches nil or a monitor of
\* another type first, or holds no RootMonitor among its first maxDepth
C8_RootNearest ==
  rootCall.pc = "done" =>
    LET w == rootCall.walk
        n == Len(rootCall.walk)
        r == rootCall.result
    IN /\ w[1] = parent[rootCall.from]
       /\ \A i \in 1..(n - 1) :
             w[i] # Nil /\ kind[w[i]] = "span" /\ w[i + 1] = parent[w[i]]
       /\ r # Nil => n <= maxDepth /\ r = w[n] /\ kind[r] = "root"
       /\ r = Nil =>
            /\ \A i \in 1..n : i <= maxDepth => (w[i] = Nil \/ kind[w[i]] # "root")
            /\ n > maxDepth \/ w[n] = Nil \/ kind[w[n]] # "span"

\* the RootMonitor is the ancestor number maxDepth, and it is found
C8_Witness ==
  /\ rootCall.pc = "done"
  /\ rootCall.from = maxDepth
  /\ rootCall.depth = maxDepth
  /\ rootCall.result = 0 /\ kind[0] = "root"

\* the Record calls on monitor p that came from the Finish of monitor m
FromChild(p, m) == {j \in 1..Len(issued[p]) : issued[p][j].from = m}

C9_Child(m, p) ==
  /\ Cardinality(FromChild(p, m)) = Len(calls[m])
  /\ \A j \in FromChild(p, m) :
       LET i == Cardinality({x \in FromChild(p, m) : x <= j}) IN
         /\ issued[p][j].event = calls[m][i].payload
         /\ Forwards(issued[p][j].event, Passes(m)[i], SubeventsField[m])
         /\ j <= Len(subevents[p]) =>
              Overrides(subevents[p][j], issued[p][j].snap, issued[p][j].event)

C9_Top(m) ==
  /\ Len(ReceivedFrom(m)) = Len(calls[m])
  /\ \A i \in 1..Len(ReceivedFrom(m)) :
       /\ Forwards(ReceivedFrom(m)[i].payload, Passes(m)[i], SubeventsField[m])
       /\ \A j \in 1..Len(Passes(m)[i].buffer) :
            Overrides(Passes(m)[i].buffer[j], issued[m][j].snap, issued[m][j].event)

\* C9: seen from a monitor whose Record calls did not overlap: each Finish of
\* an unsuppressed child makes one Record call on it, whose event is the
\* child's fields with the child's buffer under the child's key, and the entry
\* it appends is its own fields of that moment with that event laid over; what
\* it forwards to a parent that is not a span monitor, once for each Finish,
\* holds under its key these entries and its own in the order of the calls
C9_NestedPropagation ==
  \A m \in Spans :
    /\ (kind[parent[m]] = "span" /\ ~overlap[parent[m]]) => C9_Child(m, parent[m])
    /\ (kind[parent[m]] # "span" /\ ~overlap[m]) => C9_Top(m)
    /\ Quiet => Len(subevents[m]) = Len(issued[m])

\* span 2 records and finishes, then span 1 records and finishes
C9_Witness ==
  /\ Quiet
  /\ received[0] =
       << [from |-> 1,
           payload |->
             [subevents |->
                List(<< [subevents |-> List(<< [step |-> Str("start")] >>)],
                        [step |-> Str("end")] >>)]] >>

\* C10: with SubeventsField "" a Finish that has returned forwarded no payload
\* that holds the buffer under a key, and made a Record call of its own on the
\* parent for each buffered sub-event
C10_SeparateEvents ==
  \A m \in Spans :
    (SubeventsField[m] = "" /\ ~Finishing(m)) =>
      \A i \in 1..Len(calls[m]) :
        /\ \A k \in DOMAIN calls[m][i].payload :
              calls[m][i].payload[k] # List(Passes(m)[i].buffer)
        /\ \A j \in 1..Len(Passes(m)[i].buffer) :
              \E c \in 1..Len(calls[m]) :
                 calls[m][c].payload = Passes(m)[i].buffer[j]

\* a call has begun and no goroutine inside a call can take a step
C11_Stuck == ~Quiet /\ \A t \in Threads : ~ENABLED ThreadStep(t)

\* C11: in the tree, under fair scheduling, every call that has begun returns,
\* whatever calls run at the same time on the same monitor, on its siblings, on
\* its parent or on its child; and no state is reached in which a call has
\* begun and no goroutine can go on
C11_RunToCompletion ==
  /\ \A t \in Threads : (~Idle(t)) ~> Idle(t)
  /\ []~C11_Stuck

\* the two siblings were finished at the same time under their shared parent,
\* and every call has returned
C11_Witness ==
  /\ Quiet /\ overlap[1]
  /\ Len(calls[2]) = 1 /\ Len(calls[3]) = 1
  /\ Len(subevents[1]) = 2

\* goroutine t holds the lock of monitor m, for reading at least / for writing
Holds(t, m) == mu[m].w = t \/ t \in mu[m].r
HoldsExclusive(t, m) == mu[m].w = t

C12_Step ==
  \A t \in Threads :
    (~Idle(t) /\ Steps(t)) =>
      /\ Top(t).pc \in ReadSteps => Holds(t, Top(t).self)
      /\ Top(t).pc \in WriteSteps => HoldsExclusive(t, Top(t).self)

\* C12: a goroutine that takes a step reading the field set, the buffer or the
\* flag of a monitor holds the lock of that monitor, and holds it for writing
\* when the step writes one of them
C12_LockingDiscipline == [][C12_Step]_vars

\* C13: a Finish that is about to call parent.Record on a span monitor does not
\* itself hold the lock that this Record asks for first, whatever the parent
\* references, so that it never waits for a lock it holds
C13_NoReentrancy ==
  \A t \in Threads :
    At(t, "fin_call") =>
      LET p == parent[Top(t).self] IN
        (p # Nil /\ kind[p] = "span") => ~HoldsExclusive(t, p)

\* the parent hops made inside the loop (line 93); the first parent is read
\* before the loop (line 82)
Hops == IF rootCall.walk = <<>> THEN 0 ELSE Len(rootCall.walk) - 1
\* the parent chain closes on itself and holds no RootMonitor
Looped == parent[1] # Nil /\ kind[parent[1]] = "span"

C14_Bounded ==
  /\ Hops <= maxDepth
  /\ rootCall.depth <= maxDepth + 1

C14_Step ==
  rootCall' # rootCall =>
    /\ UNCHANGED <<config, fields, subevents, suppressed, mu, stack,
                   spanFinished, calls, received, history, ncalls>>
    /\ rootCall.pc = "loop" =>
          \/ rootCall'.pc = "done"
          \/ rootCall'.pc = "loop" /\ rootCall'.depth = rootCall.depth + 1

C14_NilOnCycle ==
  (rootCall.pc = "done" /\ Looped) => rootCall.result = Nil

\* C14: a Root() call that is in its loop leaves it, whatever the parent
\* references: every turn of the loop ends the call or adds one to depth, depth
\* never passes maxDepth + 1 and the loop makes at most maxDepth parent hops; no
\* step of the call takes a lock or changes a monitor, and on a chain that
\* closes on itself without a RootMonitor the result is nil
C14_RootTerminates ==
  /\ []C14_Bounded
  /\ [][C14_Step]_vars
  /\ []C14_NilOnCycle
  /\ (rootCall.pc = "loop") ~> (rootCall.pc = "done")

\* Root() on a monitor that is its own parent has returned nil after maxDepth
\* hops
C14_Witness ==
  /\ rootCall.pc = "done" /\ rootCall.result = Nil
  /\ parent[rootCall.from] = rootCall.from
  /\ Hops = maxDepth /\ rootCall.depth = maxDepth + 1

\* the frame of the call in which goroutine t takes the step
StepFrame(t) == IF Idle(t) THEN stack'[t][1] ELSE Top(t)

\* the step leaves the parent of monitor m alone: no call on it, none of its
\* fields, buffer, flag or lock touched
C15_ParentUntouched(t, m) ==
  /\ calls'[m] = calls[m]
  /\ received' = received
  /\ ~Idle(t) => Len(stack'[t]) <= Len(stack[t])
  /\ parent[m] \in Spans =>
       /\ fields'[parent[m]] = fields[parent[m]]
       /\ subevents'[parent[m]] = subevents[parent[m]]
       /\ suppressed'[parent[m]] = suppressed[parent[m]]
       /\ issued'[parent[m]] = issued[parent[m]]
       /\ mu'[parent[m]] = mu[parent[m]]

C15_Call ==
  \A t \in Threads :
    Steps(t) =>
      LET f == StepFrame(t) IN
        /\ f.op \in {"UpdateFields", "Record", "Suppress", "Fields", "Parent"}
             => C15_ParentUntouched(t, f.self)
        /\ f.op = "UpdateFields" =>
             /\ subevents'[f.self] = subevents[f.self]
             /\ suppressed'[f.self] = suppressed[f.self]
        /\ f.op = "Record" =>
             /\ fields'[f.self] = fields[f.self]
             /\ suppressed'[f.self] = suppressed[f.self]
        /\ f.op \in {"Fields", "Parent"} =>
             /\ fields' = fields /\ subevents' = subevents
             /\ suppressed' = suppressed /\ mu' = mu

C15_Root ==
  rootCall' # rootCall =>
    /\ calls' = calls /\ received' = received /\ issued' = issued
    /\ fields' = fields /\ subevents' = subevents
    /\ suppressed' = suppressed /\ mu' = mu /\ stack' = stack

C16_Record ==
  \A t \in Threads :
    At(t, "rec_append") /\ Steps(t) =>
      LET m == Top(t).self IN
        /\ subevents'[m] = Append(subevents[m], Merge(Top(t).snap, Top(t).arg))
        /\ fields' = fields /\ suppressed' = suppressed

C16_Suppress ==
  \A t \in Threads :
    At(t, "su_body") /\ Steps(t) =>
      /\ subevents' = subevents /\ fields' = fields
      /\ suppressed' = [suppressed EXCEPT ![Top(t).self] = TRUE]

C16_Finish ==
  \A t \in Threads :
    (At(t, "fin_check") /\ Steps(t) /\ suppressed[Top(t).self]) =>
      /\ subevents' = subevents /\ fields' = fields
      /\ calls' = calls /\ received' = received /\ issued' = issued
      /\ stack'[t] = <<>>

\* C16: a Record appends the fields it copied with its event laid over them
\* whether the monitor is suppressed or not; Suppress changes the flag and
\* neither the buffer nor the fields; and the Finish of a suppressed monitor
\* keeps buffer and fields and returns without a call on the parent
C16_SuppressedStillBuffers == [][C16_Record /\ C16_Suppress /\ C16_Finish]_vars

\* a suppressed monitor holds the entries of its two Record calls, made around
\* its Suppress(), and has called nothing on its parent
C16_Witness ==
  \E m \in Spans :
    /\ Quiet /\ suppressed[m]
    /\ subevents[m] = << [step |-> Str("start")], [step |-> Str("end")] >>
    /\ calls[m] = <<>>

C17_Initial == ncalls = 0 => \A m \in Spans : ~suppressed[m]

C17_Monotonic == \A m \in Spans : suppressed[m] => suppressed'[m]

C17_OnlyOwn ==
  \A m \in Spans :
    suppressed'[m] # suppressed[m] =>
      \E t \in Threads : At(t, "su_body") /\ Top(t).self = m /\ Steps(t)

C17_Idempotent ==
  \A t \in Threads :
    (At(t, "su_body") /\ Steps(t) /\ suppressed[Top(t).self]) =>
      UNCHANGED <<config, fields, subevents, suppressed, spanFinished,
                  calls, received, history>>

\* whether a Finish of m forwards depends on the flag of m alone: every Finish
\* that found m unsuppressed has its call, and the call has reached the parent
C17_Independent ==
  \A m \in Spans :
    /\ Len(calls[m]) + Pending(m) = Len(Passes(m))
    /\ kind[parent[m]] = "span" =>
         Cardinality(FromChild(parent[m], m)) = Len(calls[m])
    /\ kind[parent[m]] # "span" => Len(ReceivedFrom(m)) = Len(calls[m])

\* C17: no monitor is suppressed before the first call; a flag that is set
\* stays set; the flag of a monitor changes only in a Suppress() on that
\* monitor, and a Suppress() on a suppressed monitor changes nothing; a Finish
\* forwards to the parent when its own monitor is unsuppressed, whatever the
\* flags of the parent and of the children are
C17_SuppressedFlag ==
  /\ []C17_Initial
  /\ [][C17_Monotonic /\ C17_OnlyOwn /\ C17_Idempotent]_vars
  /\ []C17_Independent

\* the unsuppressed child of a suppressed parent was finished: its Record call
\* was made on the parent, which buffered it
C17_Witness ==
  /\ Quiet /\ suppressed[1] /\ ~suppressed[2]
  /\ Len(calls[2]) = 1 /\ Cardinality(FromChild(1, 2)) = 1
  /\ Len(subevents[1]) = 1

C18_Finalize ==
  \A m \in Spans :
    spanFinished'[m] # spanFinished[m] =>
      /\ spanFinished'[m] = spanFinished[m] + 1
      /\ span[m] /\ ~suppressed[m]
      /\ \E t \in Threads : At(t, "fin_check") /\ Top(t).self = m /\ Steps(t)
      /\ calls' = calls /\ received' = received /\ issued' = issued

C18_Call ==
  \A m \in Spans :
    calls'[m] # calls[m] =>
      /\ spanFinished'[m] = spanFinished[m]
      /\ spanFinished[m] = IF span[m] THEN Len(calls'[m]) ELSE 0

C18_PerFinish ==
  \A m \in Spans :
    /\ spanFinished[m] = IF span[m] THEN Len(Passes(m)) ELSE 0
    /\ ~Finishing(m) => Len(calls[m]) = Len(Passes(m))

\* C18: the trace span of a monitor is finalized once in each Finish that
\* finds the monitor unsuppressed, in a step before the one that calls
\* parent.Record, so that when the n-th call is made the span has been
\* finalized n times; a monitor without a trace span finalizes nothing and
\* makes the same calls on its parent
C18_FinalizeBeforeRecord == [][C18_Finalize /\ C18_Call]_vars /\ []C18_PerFinish

\* the monitor with a trace span and the one without were each finished once
C18_Witness ==
  /\ Quiet
  /\ span[1] /\ spanFinished[1] = 1 /\ Len(calls[1]) = 1
  /\ ~span[2] /\ spanFinished[2] = 0 /\ Len(calls[2]) = 1

\* the Record calls on m that have begun and not returned
InFlight(m) ==
  Cardinality({c \in Threads \X (1..2) :
                 /\ c[2] <= Len(stack[c[1]])
                 /\ stack[c[1]][c[2]].op = "Record"
                 /\ stack[c[1]][c[2]].self = m})

\* each entry of the buffer of m is the entry of a Record call of its own
Matched(m) ==
  \E f \in [1..Len(subevents[m]) -> 1..Len(issued[m])] :
    /\ \A i, j \in DOMAIN f : f[i] = f[j] => i = j
    /\ \A i \in DOMAIN f :
          subevents[m][i] = Merge(issued[m][f[i]].snap, issued[m][f[i]].event)

C19_OnePerCall ==
  \A m \in Spans :
    /\ Len(subevents[m]) = Len(issued[m]) - InFlight(m)
    /\ Matched(m)

C19_Forwarded ==
  \A m \in Spans :
    calls'[m] # calls[m] =>
      /\ Len(subevents[m]) = Len(issued[m]) - InFlight(m)
      /\ subevents[m] # <<>> =>
            calls'[m][Len(calls'[m])].payload[SubeventsField[m]]
              = List(subevents[m])

C19_HeldWhileFinishing ==
  \A m \in Spans :
    (Finishing(m) /\ Finishing(m)') => subevents'[m] = subevents[m]

\* C19: the buffer of a monitor holds one entry for each Record call on it
\* that has returned, each the entry of a call of its own, the calls coming
\* from direct callers or from children being finished, one after the other
\* or at the same time; the buffer does not change while a Finish is in
\* progress, and the payload the Finish hands to the parent holds the whole
\* buffer, which is every entry whose Record had returned when Finish began
C19_NoLostEvents ==
  []C19_OnePerCall /\ [][C19_Forwarded /\ C19_HeldWhileFinishing]_vars

\* the two children were finished at the same time, their Record calls on the
\* parent overlapping; then the parent was finished and forwarded both entries
C19_Witness ==
  /\ Quiet /\ overlap[1]
  /\ Len(received[0]) = 1
  /\ FieldEventSubevents \in DOMAIN received[0][1].payload
  /\ LET l == received[0][1].payload[FieldEventSubevents].l IN
       /\ Len(l) = 2
       /\ {l[i] : i \in 1..2} = { [op |-> Str("fetch")], [op |-> Str("store")] }

\* the fields a Record copies are those it found when it was granted the read
\* lock, and no step changes the fields of a monitor while a reader holds its
\* lock: the copy is the field set of one instant
C20_OneInstant ==
  /\ \A t \in Threads :
        At(t, "rec_copy") /\ Steps(t) =>
          /\ fields[Top(t).self] = Top(t).snap
          /\ stack'[t][Len(stack'[t])].merged = Merge(Top(t).snap, Top(t).arg)
  /\ \A t \in Threads :
        At(t, "rec_append") /\ Steps(t) =>
          subevents'[Top(t).self] = Append(subevents[Top(t).self], Top(t).merged)
  /\ \A m \in Spans : mu[m].r # {} => fields'[m] = fields[m]

\* the entries of the buffer of m are entries of distinct Record calls whose
\* snapshots were taken in the order of the buffer (issued is in the order in
\* which the calls were granted the read lock)
InSnapshotOrder(m) ==
  \E f \in [1..Len(subevents[m]) -> 1..Len(issued[m])] :
    /\ \A i, j \in DOMAIN f : i < j => f[i] < f[j]
    /\ \A i \in DOMAIN f :
          subevents[m][i] = Merge(issued[m][f[i]].snap, issued[m][f[i]].event)

\* the same, two calls that copied the same fields counting as taken at the
\* same instant: readers that hold the lock together see the same fields, and
\* two snapshots that differ were taken one after the other, in the order in
\* which the read lock was granted
NoLaterSnapshotFirst(m) ==
  \E f \in [1..Len(subevents[m]) -> 1..Len(issued[m])] :
    /\ \A i, j \in DOMAIN f : f[i] = f[j] => i = j
    /\ \A i, j \in DOMAIN f :
          i < j => \/ f[i] < f[j]
                   \/ issued[m][f[i]].snap = issued[m][f[j]].snap
    /\ \A i \in DOMAIN f :
          subevents[m][i] = Merge(issued[m][f[i]].snap, issued[m][f[i]].event)

\* C20: the field part of a buffered sub-event is the field set of the monitor
\* at one instant of its Record call, and no entry of the buffer comes before
\* an entry whose snapshot was taken earlier than its own
C20_SnapshotOrder ==
  [][C20_OneInstant]_vars /\ [](\A m \in Spans : NoLaterSnapshotFirst(m))

\* C20, amended: the field part of a buffered sub-event is the field set of
\* the monitor at one instant of its Record call; the buffer is in the order of
\* the appends, each entry the one of a Record call of its own, and it is in
\* the order of the snapshots when the Record calls on the monitor did not
\* overlap
C20_SnapshotConsistent ==
  /\ [][C20_OneInstant]_vars
  /\ [](\A m \in Spans : Matched(m) /\ (~overlap[m] => InSnapshotOrder(m)))

\* Record({step: start}) took its snapshot, UpdateFields({op: fetch}) and
\* Record({step: end}) ran, and then the first Record appended its entry
C20_Witness ==
  \E m \in Spans :
    /\ Quiet /\ overlap[m]
    /\ issued[m] = << [event |-> [step |-> Str("start")], snap |-> EmptyMap,
                        from |-> Nil],
                       [event |-> [step |-> Str("end")],
                        snap |-> [op |-> Str("fetch")], from |-> Nil] >>
    /\ subevents[m] = << [op |-> Str("fetch"), step |-> Str("end")],
                          [step |-> Str("start")] >>
====
